---------------------------- MODULE Spec2Model ----------------------------
(***************************************************************************)
(* A model of poline-core: the ColorPoint value type, the point <-> HSL    *)
(* conversion, the easing functions, the line sampler and the Poline       *)
(* palette with its anchor operations.                                     *)
(*                                                                         *)
(* Numbers.  The program computes in f32.  Here every f32 quantity other   *)
(* than a hue is a fixed-point integer counting hundredths (ONE = 1.0),    *)
(* and a hue is an integer number of degrees.  The inputs are chosen so    *)
(* that every intermediate value is exact on this grid: hues are multiples *)
(* of 90 degrees (sine and cosine are 0 or +-1), lightnesses are even      *)
(* hundredths, positions lie on the axes through the centre (0.5, 0.5).    *)
(* The trigonometric operators are defined on that domain only; TLC stops  *)
(* with an error if a run leaves it.  Floating-point rounding is therefore *)
(* not modelled.                                                           *)
(*                                                                         *)
(* Rust's Option<T> is a sequence of length 0 (None) or 1 (Some(v)); Vec   *)
(* is a sequence, indexed from 1 here and from 0 in the operations'        *)
(* arguments, as in the source.  A panic ends the program: pc becomes      *)
(* "panicked" and no operation is enabled afterwards.                      *)
(***************************************************************************)
EXTENDS Integers, Sequences, FiniteSets, TLC

VARIABLES
    pc,                             \* "start" | "live" | "panicked" | "returned"
    anchor_points,                  \* Poline.anchor_points
    num_points,                     \* Poline.num_points
    points,                         \* Poline.points
    position_function_x,            \* Poline.position_function_x
    position_function_y,            \* Poline.position_function_y
    position_function_z,            \* Poline.position_function_z
    anchor_pairs,                   \* Poline.anchor_pairs
    connect_last_and_first_anchor,  \* Poline.connect_last_and_first_anchor
    inverted_lightness,             \* Poline.inverted_lightness
    op,                             \* the name of the last operation called
    calls,                          \* how many operations were called on the palette
    density,                        \* PolineOptions.num_points, as given to the constructor
    args,                           \* the arguments of the last query or function call
    out,                            \* what it returned: None, or Some(value)
    color_point                     \* a ColorPoint on its own: None, or Some(point)

palette == <<anchor_points, num_points, points, position_function_x,
             position_function_y, position_function_z, anchor_pairs,
             connect_last_and_first_anchor, inverted_lightness>>

vars == <<pc, anchor_points, num_points, points, position_function_x,
          position_function_y, position_function_z, anchor_pairs,
          connect_last_and_first_anchor, inverted_lightness, op, calls, density,
          args, out, color_point>>

----------------------------------------------------------------------------
(* Numbers *)

\* 1.0_f32 in hundredths.
ONE == 100

\* cx = cy = 0.5_f32, the centre of the unit square.
CX == 50

CY == 50

\* A full turn, in degrees.
TURN == 360

\* Option<T>
None == <<>>

Some(v) == <<v>>

unwrap_or(o, d) == IF o = None THEN d ELSE o[1]

\* f32 `%`: the remainder of the truncated division, with the dividend's sign.
Rem(a, b) == IF a >= 0 THEN a % b ELSE -((-a) % b)

\* Fixed-point product and quotient.
Mul(a, b) == (a * b) \div ONE

Div(a, b) == (a * ONE) \div b

\* b.powf(e) for a whole exponent e.
RECURSIVE powf(_, _)
powf(b, e) == IF e = 0 THEN ONE ELSE Mul(b, powf(b, e - 1))

\* f32::sqrt of a fixed-point value with an exact root.
sqrt(v) == CHOOSE r \in 0..(2 * ONE) : r * r = v * ONE

\* cos and sin of an angle in degrees, for multiples of 90.
CosDeg(h) ==
    CASE h % TURN = 0   -> ONE
      [] h % TURN = 90  -> 0
      [] h % TURN = 180 -> -ONE
      [] h % TURN = 270 -> 0

SinDeg(h) ==
    CASE h % TURN = 0   -> 0
      [] h % TURN = 90  -> ONE
      [] h % TURN = 180 -> 0
      [] h % TURN = 270 -> -ONE

\* asin in degrees, at -1, 0 and 1.
AsinDeg(t) ==
    CASE t = 0    -> 0
      [] t = ONE  -> 90
      [] t = -ONE -> -90

\* dy.atan2(dx) in degrees, in (-180, 180], for points on the axes;
\* atan2(0, 0) = 0.
Atan2Deg(dy, dx) ==
    CASE dy = 0 /\ dx >= 0 -> 0
      [] dy = 0 /\ dx < 0  -> 180
      [] dx = 0 /\ dy > 0  -> 90
      [] dx = 0 /\ dy < 0  -> -90

Abs(a) == IF a >= 0 THEN a ELSE -a

\* sqrt(dy^2 + dx^2), exact.
Hypot(dy, dx) ==
    IF dx = 0 THEN Abs(dy)
    ELSE IF dy = 0 THEN Abs(dx)
    ELSE CHOOSE r \in 0..(2 * ONE) : r * r = dy * dy + dx * dx

----------------------------------------------------------------------------
(* utils.rs: conversions *)

number_as_enum(scale_num) ==
    CASE scale_num = 0 -> "Linear"
      [] scale_num = 1 -> "Exponential"
      [] scale_num = 2 -> "Cubic"
      [] scale_num = 3 -> "Quadratic"
      [] scale_num = 4 -> "Quartic"
      [] scale_num = 5 -> "Sinusoidal"
      [] scale_num = 6 -> "Asinusoidal"
      [] scale_num = 7 -> "Arc"
      [] scale_num = 8 -> "SmoothStep"

\* number_as_enum's `_ => unreachable!()`.
number_as_enum_panics(scale_num) == scale_num \notin 0..8

point_to_hsl(xyz, inverted) ==
    LET x == xyz[1]
        y == xyz[2]
        z == xyz[3]
        deg == Atan2Deg(y - CY, x - CX)
        dist == Hypot(y - CY, x - CX)
        l == Div(dist, CX)
    IN  <<Rem(TURN + deg, TURN), z, IF inverted THEN ONE - l ELSE l>>

\* As hsl_to_point, with the distance taken from the lightness in both
\* branches.
hsl_to_point_by_lightness(hsl, inverted) ==
    LET h == hsl[1]
        s == hsl[2]
        l == hsl[3]
        dist == IF inverted THEN Mul(ONE - l, CX) ELSE Mul(l, CX)
    IN  <<CX + Mul(dist, CosDeg(h)), CY + Mul(dist, SinDeg(h)), s>>

hsl_to_point(hsl, inverted) ==
    LET h == hsl[1]
        s == hsl[2]
        l == hsl[3]
        dist == IF inverted THEN Mul(ONE - l, CX) ELSE Mul(ONE, CX)
    IN  <<CX + Mul(dist, CosDeg(h)), CY + Mul(dist, SinDeg(h)), s>>

----------------------------------------------------------------------------
(* positions.rs: easing *)

position_from_scale(scale, t, reverse) ==
    CASE scale = "Linear" -> t
      [] scale = "Exponential" ->
            IF reverse THEN ONE - powf(ONE - t, 2) ELSE powf(t, 2)
      [] scale = "Cubic" ->
            IF reverse THEN ONE - powf(ONE - t, 3) ELSE powf(t, 3)
      [] scale = "Quadratic" ->
            IF reverse THEN ONE - powf(ONE - t, 4) ELSE powf(t, 4)
      [] scale = "Quartic" ->
            IF reverse THEN ONE - powf(ONE - t, 5) ELSE powf(t, 5)
      [] scale = "Sinusoidal" ->
            IF reverse THEN ONE - SinDeg(Mul(ONE - t, 180) \div 2)
                       ELSE SinDeg(Mul(t, 180) \div 2)
      [] scale = "Asinusoidal" ->
            IF reverse THEN ONE - Div(AsinDeg(ONE - t), 180 \div 2)
                       ELSE Div(AsinDeg(t), 180 \div 2)
      [] scale = "Arc" ->
            IF reverse THEN sqrt(ONE - powf(ONE - t, 2))
                       ELSE ONE - sqrt(ONE - t)
      [] scale = "SmoothStep" ->
            powf(t, Mul(2 * ONE, 3 * ONE - Mul(2 * ONE, t)) \div ONE)

----------------------------------------------------------------------------
(* utils.rs: the line sampler *)

_invert(number, invert) == IF invert THEN ONE - number ELSE number

vector_on_line(t, p1, p2, invert, fx, fy, fz) ==
    LET t_modified_x == IF fx # None THEN position_from_scale(fx[1], t, invert)
                                     ELSE _invert(t, invert)
        t_modified_y == IF fy # None THEN position_from_scale(fy[1], t, invert)
                                     ELSE _invert(t, invert)
        t_modified_z == IF fz # None THEN position_from_scale(fz[1], t, invert)
                                     ELSE _invert(t, invert)
    IN  <<Mul(ONE - t_modified_x, p1[1]) + Mul(t_modified_x, p2[1]),
          Mul(ONE - t_modified_y, p1[2]) + Mul(t_modified_y, p2[2]),
          Mul(ONE - t_modified_z, p1[3]) + Mul(t_modified_z, p2[3])>>

\* `i / (num_points - 1)` divides usize by zero when num_points = 1 (the loop
\* body does not run when num_points = 0); count is the num_points argument.
vectors_on_line_panics(count) == unwrap_or(count, 4) = 1

\* As vectors_on_line, with the quotient taken in f32.
vectors_on_line_f32(p1, p2, count, invert, fx, fy, fz) ==
    LET n == unwrap_or(count, 4)
    IN  [k \in 1..n |->
            vector_on_line(Div(k - 1, n - 1), p1, p2, invert, fx, fy, fz)]

\* Sample i (from 0) is taken at t = (i / (count - 1)) as f32, the
\* quotient of the usize division.
vectors_on_line(p1, p2, count, invert, fx, fy, fz) ==
    LET n == unwrap_or(count, 4)
    IN  [k \in 1..n |->
            vector_on_line(((k - 1) \div (n - 1)) * ONE, p1, p2, invert, fx, fy, fz)]

----------------------------------------------------------------------------
(* color_point.rs: ColorPoint *)

\* ColorPoint::new's `_ => unreachable!()`: neither a position nor a color.
ColorPoint_new_panics(initial) == initial.xyz = None /\ initial.color = None

ColorPoint_new(initial) ==
    IF initial.xyz # None
    THEN [x |-> initial.xyz[1][1], y |-> initial.xyz[1][2], z |-> initial.xyz[1][3],
          color |-> point_to_hsl(initial.xyz[1], initial.inverted_lightness),
          _inverted_lightness |-> initial.inverted_lightness]
    ELSE LET p == hsl_to_point(initial.color[1], initial.inverted_lightness)
         IN  [x |-> p[1], y |-> p[2], z |-> p[3],
              color |-> initial.color[1],
              _inverted_lightness |-> initial.inverted_lightness]

set_position(self, new_position) ==
    [self EXCEPT !.x = new_position[1], !.y = new_position[2], !.z = new_position[3],
                 !.color = point_to_hsl(new_position, self._inverted_lightness)]

position(self) == <<self.x, self.y, self.z>>

\* As set_hsl, without the recomputation of the position.
set_hsl_color_only(self, new_color) == [self EXCEPT !.color = new_color]

set_hsl(self, new_color) ==
    LET p == hsl_to_point(new_color, self._inverted_lightness)
    IN  [self EXCEPT !.color = new_color, !.x = p[1], !.y = p[2], !.z = p[3]]

\* hsl_css(): format!("hsl({hue},{saturation}%,{luminance}%"), the pieces of
\* the string in order; saturation = s * 100.0 and luminance = l * 100.0.
hsl_css(self) ==
    <<"hsl(", self.color[1], ",", Mul(self.color[2], 100 * ONE), "%,",
      Mul(self.color[3], 100 * ONE), "%">>

ColorPoint_shift_hue(self, angle) ==
    LET color == <<Rem(TURN + (self.color[1] + angle), TURN),
                   self.color[2], self.color[3]>>
        p == hsl_to_point(color, self._inverted_lightness)
    IN  [self EXCEPT !.color = color, !.x = p[1], !.y = p[2], !.z = p[3]]

----------------------------------------------------------------------------
(* lib.rs: pair and grid derivation, flattening, colors *)

\* The number of pairs _update_anchor_pairs builds.
anchor_points_length(_loop, anchors) ==
    IF _loop THEN Len(anchors) ELSE Len(anchors) - 1

\* `anchor_points.len() - 1` on an empty Vec: the usize subtraction overflows
\* (a panic in a debug build; in a release build it wraps and anchor_points[0]
\* is out of bounds).  Otherwise the sampler's panic, once per pair.
_update_anchor_pairs_panics(_loop, anchors, count) ==
    \/ ~_loop /\ Len(anchors) = 0
    \/ anchor_points_length(_loop, anchors) > 0 /\ vectors_on_line_panics(Some(count))

\* Returns <<anchor_pairs, points>>.  Pair i (from 0) is sampled with
\* invert = (i % 2 == 0).
_update_anchor_pairs(_loop, anchors, inverted, count, fx, fy, fz) ==
    LET n == anchor_points_length(_loop, anchors)
        pairs == [k \in 1..n |-> <<anchors[k], anchors[(k % n) + 1]>>]
        grid == [k \in 1..n |->
                    LET line == vectors_on_line(position(pairs[k][1]),
                                                position(pairs[k][2]),
                                                Some(count), (k - 1) % 2 = 0,
                                                Some(fx), Some(fy), Some(fz))
                    IN  [j \in 1..Len(line) |->
                            ColorPoint_new([xyz |-> Some(line[j]), color |-> None,
                                            inverted_lightness |-> inverted])]]
    IN  <<pairs, grid>>

\* into_iter().flatten()
RECURSIVE flatten(_)
flatten(ss) == IF ss = <<>> THEN <<>> ELSE Head(ss) \o flatten(Tail(ss))

\* enumerate().filter(|(idx, _)| if idx != 0 { idx % num_points == 0 } else { true }),
\* from index idx (from 0) on.
RECURSIVE filter_from(_, _, _)
filter_from(flat, idx, count) ==
    IF idx >= Len(flat) THEN <<>>
    ELSE (IF (IF idx # 0 THEN idx % count = 0 ELSE TRUE) THEN <<flat[idx + 1]>> ELSE <<>>)
         \o filter_from(flat, idx + 1, count)

flattened_points == filter_from(flatten(points), 0, num_points)

\* colors(): `split_last().unwrap()` panics on an empty list.
colors_panics == connect_last_and_first_anchor /\ flattened_points = <<>>

colors ==
    LET cs == [k \in 1..Len(flattened_points) |-> flattened_points[k].color]
    IN  IF connect_last_and_first_anchor THEN SubSeq(cs, 1, Len(cs) - 1) ELSE cs

\* colors_css(): the same, with hsl_css() for the color.
colors_css_panics == connect_last_and_first_anchor /\ flattened_points = <<>>

colors_css ==
    LET cs == [k \in 1..Len(flattened_points) |-> hsl_css(flattened_points[k])]
    IN  IF connect_last_and_first_anchor THEN SubSeq(cs, 1, Len(cs) - 1) ELSE cs

\* Vec::insert(index, v) and Vec::remove(index), index from 0.
insert(v, index, e) == SubSeq(v, 1, index) \o <<e>> \o SubSeq(v, index + 1, Len(v))

remove(v, index) == SubSeq(v, 1, index) \o SubSeq(v, index + 2, Len(v))

\* iter().position(|&p| p == point): Some(first index, from 0) or None.
position_of(v, point) ==
    IF \E k \in 1..Len(v) : v[k] = point
    THEN Some((CHOOSE k \in 1..Len(v) :
                  v[k] = point /\ \A j \in 1..(k - 1) : v[j] # point) - 1)
    ELSE None

----------------------------------------------------------------------------
(* utils.rs and lib.rs: the nearest-anchor query *)

optional_vector3(vector3) == <<Some(vector3[1]), Some(vector3[2]), Some(vector3[3])>>

Min(a, b) == IF a <= b THEN a ELSE b

\* (a * a + b * b + c * c).sqrt(), in hundredths.  Exact when the root is a
\* whole number of hundredths, and rounded down to one otherwise (f32 rounds
\* to nearest; both roundings keep the order of the distances).
Norm(a, b, c) ==
    IF b = 0 /\ c = 0 THEN Abs(a)
    ELSE IF a = 0 /\ c = 0 THEN Abs(b)
    ELSE IF a = 0 /\ b = 0 THEN Abs(c)
    ELSE CHOOSE r \in 0..(4 * ONE) :
            r * r <= a * a + b * b + c * c /\ (r + 1) * (r + 1) > a * a + b * b + c * c

\* distance(p1, p2, hue_mode) of two PartialVector3: an axis absent on either
\* side contributes 0.
distance(p1, p2, hue_mode) ==
    LET diff_a == IF p1[1] # None /\ p2[1] # None
                  THEN IF hue_mode
                       THEN Div(Min(Abs(p1[1][1] - p2[1][1]),
                                    TURN - Abs(p1[1][1] - p2[1][1])), TURN)
                       ELSE p1[1][1] - p2[1][1]
                  ELSE 0
        b == IF p1[2] # None /\ p2[2] # None THEN p2[2][1] - p1[2][1] ELSE 0
        c == IF p1[3] # None /\ p2[3] # None THEN p2[3][1] - p1[3][1] ELSE 0
    IN  Norm(diff_a, b, c)

\* The distances get_closest_anchor_point collects, one per anchor.
distances(xyz) ==
    [k \in 1..Len(anchor_points) |->
        distance(optional_vector3(position(anchor_points[k])), xyz, FALSE)]

\* distances.iter().min()
min_distance(xyz) ==
    CHOOSE d \in {distances(xyz)[k] : k \in 1..Len(anchor_points)} :
        \A k \in 1..Len(anchor_points) : d <= distances(xyz)[k]

\* `distances.iter().min().unwrap()` panics when there is no anchor.
get_closest_anchor_point_panics == Len(anchor_points) = 0

\* As get_closest_anchor_point, with the anchor at the last position of the
\* minimum instead of the first.
get_closest_anchor_point_last(xyz, max_distance) ==
    IF min_distance(xyz) > max_distance THEN None
    ELSE Some(anchor_points[CHOOSE k \in 1..Len(anchor_points) :
                  /\ distances(xyz)[k] = min_distance(xyz)
                  /\ \A j \in (k + 1)..Len(anchor_points) :
                        distances(xyz)[j] # min_distance(xyz)])

\* get_closest_anchor_point(xyz, max_distance): None when the minimum is
\* greater than max_distance, else the anchor at
\* distances.iter().position(|p| p == min_distance).
get_closest_anchor_point(xyz, max_distance) ==
    IF min_distance(xyz) > max_distance THEN None
    ELSE Some(anchor_points[position_of(distances(xyz), min_distance(xyz))[1] + 1])

----------------------------------------------------------------------------
(* Bounds and inputs *)

\* At most MaxCalls operations are called on a palette after its construction.
MaxCalls == 2

\* PolineOptions.num_points is drawn from 0..MaxNumPoints.
MaxNumPoints == 2

\* Easing selectors are drawn from 0..MaxScaleNum.
MaxScaleNum == 1

\* HSL colors: hue in degrees, saturation and lightness in hundredths.
Color1 == <<0, 100, 80>>

Color2 == <<90, 50, 30>>

\* A position, on the axis left of the centre.
Position1 == <<0, 50, 40>>

\* PolineOptions.anchor_colors
AnchorColorLists == {None, Some(<<Color1>>), Some(<<Color1, Color2>>)}

\* What random_hsl_pair may return.
RandomPairs == {<<Color1, Color2>>}

ScaleNums == 0..MaxScaleNum

\* Selectors given to the setters: the valid ones, and one outside
\* number_as_enum's range.
ScaleNumInputs == ScaleNums \cup {9}

Scales == {number_as_enum(k) : k \in ScaleNums}

OptionalScales == {None, Some(number_as_enum(MaxScaleNum))}

OptionsSet ==
    [anchor_colors : AnchorColorLists,
     num_points : 0..MaxNumPoints,
     position_function : {number_as_enum(0)},
     position_function_x : OptionalScales,
     position_function_y : {None},
     position_function_z : {None},
     inverted_lightness : BOOLEAN,
     closed_loop : BOOLEAN]

\* ColorPointCollection values given to add and update.
Collections ==
    {[xyz |-> None, color |-> Some(Color2), inverted_lightness |-> FALSE],
     [xyz |-> Some(Position1), color |-> None, inverted_lightness |-> TRUE],
     [xyz |-> Some(Position1), color |-> Some(Color1), inverted_lightness |-> FALSE],
     [xyz |-> None, color |-> None, inverted_lightness |-> FALSE]}

\* Angles given to shift_hue, in degrees.
ShiftAngles == {-450, 90, 360}

\* A point that equals no anchor: its position is that of no color.
Stranger ==
    ColorPoint_new([xyz |-> Some(<<CX, CY, 0>>), color |-> None,
                    inverted_lightness |-> FALSE])

\* A point given to remove_anchor_point and update_anchor_point: an anchor of
\* the palette, or the stranger.
ProbePoints == {anchor_points[k] : k \in 1..Len(anchor_points)} \cup {Stranger}

\* Where add_anchor_point is asked to insert: at the end, at the front, past
\* the end.
InsertIndexes == {None, Some(0), Some(Len(anchor_points) + 1)}

\* A second position, on the axis above the centre.
Position2 == <<50, 100, 100>>

\* ColorPointCollection values given to ColorPoint::new on its own.
PointCollections ==
    [xyz : {None, Some(Position1), Some(Position2)},
     color : {None, Some(Color1), Some(Color2)},
     inverted_lightness : BOOLEAN]

\* Positions given to set_position: two on the axes and the centre.
NewPositions == {Position1, Position2, <<CX, CY, 0>>}

\* Colors given to set_hsl.
NewColors == {Color1, Color2}

\* The arguments of vectors_on_line on its own: <<p1, p2, num_points, invert,
\* fx, fy, fz>>.
SamplerInputs ==
    {<<p1, p2, count, invert, fx, fy, fz>> :
        p1 \in NewPositions, p2 \in NewPositions,
        count \in {None} \cup {Some(n) : n \in 0..(MaxNumPoints + 1)},
        invert \in BOOLEAN,
        fx \in {None} \cup {Some(f) : f \in Scales},
        fy \in OptionalScales, fz \in OptionalScales}

\* The arguments of hsl_to_point on its own: <<hsl, inverted_lightness>>.
ConversionInputs ==
    {<<<<h, s, l>>, inverted>> :
        h \in {0, 90, 180, 270}, s \in {0, CX, ONE}, l \in {0, 30, 80, ONE},
        inverted \in BOOLEAN}

\* The masks given to get_closest_anchor_point: no axis, the x axis, all
\* three axes.
Queries ==
    {<<None, None, None>>, <<Some(ONE), None, None>>, <<Some(CX), Some(CY), Some(0)>>}

\* Its max_distance, in hundredths.
MaxDistances == {0, 40}

----------------------------------------------------------------------------
(* State *)

\* Nothing is constructed and nothing was called.
Blank ==
    /\ pc = "start"
    /\ anchor_points = <<>>
    /\ num_points = 0
    /\ points = <<>>
    /\ position_function_x = "Linear"
    /\ position_function_y = "Linear"
    /\ position_function_z = "Linear"
    /\ anchor_pairs = <<>>
    /\ connect_last_and_first_anchor = FALSE
    /\ inverted_lightness = FALSE
    /\ op = "none"
    /\ calls = 0
    /\ density = 0
    /\ out = None
    /\ color_point = None

Init == Blank /\ args = None

\* The operation name returned (nothing, or a value the model does not keep).
Returns(name) ==
    /\ pc' = "live"
    /\ op' = name
    /\ args' = None
    /\ out' = None

\* The operation name panicked.
Panics(name) ==
    /\ pc' = "panicked"
    /\ op' = name
    /\ args' = None
    /\ out' = None

\* The query name, called with the arguments a, returned v.
Answers(name, a, v) ==
    /\ pc' = "live"
    /\ op' = name
    /\ args' = Some(a)
    /\ out' = Some(v)

\* An operation is called on the live palette.
Called ==
    /\ pc = "live"
    /\ calls < MaxCalls
    /\ calls' = calls + 1
    /\ UNCHANGED <<density, color_point>>

\* self.update_anchor_pairs(), with self.anchor_points = anchors.
update_anchor_pairs(anchors) ==
    LET d == _update_anchor_pairs(connect_last_and_first_anchor, anchors,
                                  inverted_lightness, num_points, position_function_x,
                                  position_function_y, position_function_z)
    IN  /\ anchor_pairs' = d[1]
        /\ points' = d[2]

update_anchor_pairs_panics(anchors) ==
    _update_anchor_pairs_panics(connect_last_and_first_anchor, anchors, num_points)

----------------------------------------------------------------------------
(* lib.rs: construction and the operations *)

\* Poline::from(options); random is what random_hsl_pair returns.
From(options, random) ==
    /\ pc = "start"
    /\ UNCHANGED <<calls, color_point>>
    /\ LET anchor_colors == unwrap_or(options.anchor_colors, random)
           anchors == [k \in 1..Len(anchor_colors) |->
                          ColorPoint_new([xyz |-> None, color |-> Some(anchor_colors[k]),
                                          inverted_lightness |-> options.inverted_lightness])]
           fx == unwrap_or(options.position_function_x, options.position_function)
           fy == unwrap_or(options.position_function_y, options.position_function)
           fz == unwrap_or(options.position_function_z, options.position_function)
       IN  IF \/ ~(Len(anchor_colors) >= 2)
              \/ _update_anchor_pairs_panics(options.closed_loop, anchors,
                                             options.num_points)
           THEN /\ Panics("from")
                /\ UNCHANGED <<palette, density>>
           ELSE LET d == _update_anchor_pairs(options.closed_loop, anchors,
                                              options.inverted_lightness,
                                              options.num_points, fx, fy, fz)
                IN  /\ anchor_points' = anchors
                    /\ num_points' = options.num_points + 2
                    /\ position_function_x' = fx
                    /\ position_function_y' = fy
                    /\ position_function_z' = fz
                    /\ connect_last_and_first_anchor' = options.closed_loop
                    /\ inverted_lightness' = options.inverted_lightness
                    /\ anchor_pairs' = d[1]
                    /\ points' = d[2]
                    /\ density' = options.num_points
                    /\ Returns("from")

\* pub fn update_anchor_pairs(&mut self)
UpdateAnchorPairs ==
    /\ Called
    /\ UNCHANGED <<anchor_points, num_points, position_function_x, position_function_y,
                   position_function_z, connect_last_and_first_anchor, inverted_lightness>>
    /\ IF update_anchor_pairs_panics(anchor_points)
       THEN /\ Panics("update_anchor_pairs")
            /\ UNCHANGED <<anchor_pairs, points>>
       ELSE /\ update_anchor_pairs(anchor_points)
            /\ Returns("update_anchor_pairs")

\* The ColorPoint add_anchor_point(initial, _) returns.
add_anchor_point_result(initial) == ColorPoint_new(initial)

\* add_anchor_point(initial, insert_at_index); Vec::insert panics when
\* index > len.
AddAnchorPoint(initial, insert_at_index) ==
    /\ Called
    /\ UNCHANGED <<num_points, position_function_x, position_function_y,
                   position_function_z, connect_last_and_first_anchor, inverted_lightness>>
    /\ IF \/ ColorPoint_new_panics(initial)
          \/ insert_at_index # None /\ insert_at_index[1] > Len(anchor_points)
       THEN /\ Panics("add_anchor_point")
            /\ UNCHANGED <<anchor_points, anchor_pairs, points>>
       ELSE LET new_anchor == add_anchor_point_result(initial)
                anchors == IF insert_at_index # None
                           THEN insert(anchor_points, insert_at_index[1], new_anchor)
                           ELSE Append(anchor_points, new_anchor)
            IN  /\ anchor_points' = anchors
                /\ IF update_anchor_pairs_panics(anchors)
                   THEN /\ Panics("add_anchor_point")
                        /\ UNCHANGED <<anchor_pairs, points>>
                   ELSE /\ update_anchor_pairs(anchors)
                        /\ Returns("add_anchor_point")

\* The body of remove_anchor_point_at_index(index), run for the operation
\* name; Vec::remove panics when index >= len.
remove_at(name, index) ==
    IF index >= Len(anchor_points)
    THEN /\ Panics(name)
         /\ UNCHANGED <<anchor_points, anchor_pairs, points>>
    ELSE LET anchors == remove(anchor_points, index)
         IN  /\ anchor_points' = anchors
             /\ IF update_anchor_pairs_panics(anchors)
                THEN /\ Panics(name)
                     /\ UNCHANGED <<anchor_pairs, points>>
                ELSE /\ update_anchor_pairs(anchors)
                     /\ Returns(name)

RemoveAnchorPointAtIndex(index) ==
    /\ Called
    /\ UNCHANGED <<num_points, position_function_x, position_function_y,
                   position_function_z, connect_last_and_first_anchor, inverted_lightness>>
    /\ remove_at("remove_anchor_point_at_index", index)

\* remove_anchor_point(point): `panic!("Point not found")` when no anchor
\* equals point.
RemoveAnchorPoint(point) ==
    /\ Called
    /\ UNCHANGED <<num_points, position_function_x, position_function_y,
                   position_function_z, connect_last_and_first_anchor, inverted_lightness>>
    /\ LET index == position_of(anchor_points, point)
       IN  IF index # None
           THEN remove_at("remove_anchor_point", index[1])
           ELSE /\ Panics("remove_anchor_point")
                /\ UNCHANGED <<anchor_points, anchor_pairs, points>>

\* The ColorPoint update_anchor_point_at_index(index, initial) returns, for a
\* valid index.  `let mut point = self.anchor_points[index]` copies the anchor
\* (ColorPoint is Copy) and the setters change the copy.
update_anchor_point_at_index_result(index, initial) ==
    LET point0 == anchor_points[index + 1]
        point1 == IF initial.xyz # None
                  THEN set_position(point0, initial.xyz[1]) ELSE point0
    IN  IF initial.color # None THEN set_hsl(point1, initial.color[1]) ELSE point1

\* The body of update_anchor_point_at_index(index, initial), run for the
\* operation name; indexing panics when index >= len.  The copy is changed
\* and returned, and self.anchor_points keeps its value.
update_at(name, index, initial) ==
    IF index >= Len(anchor_points)
    THEN /\ Panics(name)
         /\ UNCHANGED <<anchor_points, anchor_pairs, points>>
    ELSE /\ anchor_points' = anchor_points
         /\ IF update_anchor_pairs_panics(anchor_points)
            THEN /\ Panics(name)
                 /\ UNCHANGED <<anchor_pairs, points>>
            ELSE /\ update_anchor_pairs(anchor_points)
                 /\ Returns(name)

UpdateAnchorPointAtIndex(index, initial) ==
    /\ Called
    /\ UNCHANGED <<num_points, position_function_x, position_function_y,
                   position_function_z, connect_last_and_first_anchor, inverted_lightness>>
    /\ update_at("update_anchor_point_at_index", index, initial)

\* update_anchor_point(point, initial): `panic!("Point not found")` when no
\* anchor equals point; the updated point is not returned.
UpdateAnchorPoint(point, initial) ==
    /\ Called
    /\ UNCHANGED <<num_points, position_function_x, position_function_y,
                   position_function_z, connect_last_and_first_anchor, inverted_lightness>>
    /\ LET index == position_of(anchor_points, point)
       IN  IF index # None
           THEN update_at("update_anchor_point", index[1], initial)
           ELSE /\ Panics("update_anchor_point")
                /\ UNCHANGED <<anchor_points, anchor_pairs, points>>

\* Poline::shift_hue(shift)
ShiftHue(shift) ==
    /\ Called
    /\ UNCHANGED <<num_points, position_function_x, position_function_y,
                   position_function_z, connect_last_and_first_anchor, inverted_lightness>>
    /\ LET anchors == [k \in 1..Len(anchor_points) |->
                          ColorPoint_shift_hue(anchor_points[k], shift)]
       IN  /\ anchor_points' = anchors
           /\ IF update_anchor_pairs_panics(anchors)
              THEN /\ Panics("shift_hue")
                   /\ UNCHANGED <<anchor_pairs, points>>
              ELSE /\ update_anchor_pairs(anchors)
                   /\ Returns("shift_hue")

\* The easing setters assign the fields and do not call update_anchor_pairs.
SetPositionFnX(scale_num) ==
    /\ Called
    /\ UNCHANGED <<anchor_points, num_points, points, anchor_pairs,
                   connect_last_and_first_anchor, inverted_lightness>>
    /\ IF number_as_enum_panics(scale_num)
       THEN /\ Panics("set_position_fn_x")
            /\ UNCHANGED <<position_function_x, position_function_y, position_function_z>>
       ELSE /\ position_function_x' = number_as_enum(scale_num)
            /\ UNCHANGED <<position_function_y, position_function_z>>
            /\ Returns("set_position_fn_x")

\* set_position_fn_y assigns self.position_function_z.
SetPositionFnY(scale_num) ==
    /\ Called
    /\ UNCHANGED <<anchor_points, num_points, points, anchor_pairs,
                   connect_last_and_first_anchor, inverted_lightness>>
    /\ IF number_as_enum_panics(scale_num)
       THEN /\ Panics("set_position_fn_y")
            /\ UNCHANGED <<position_function_x, position_function_y, position_function_z>>
       ELSE /\ position_function_z' = number_as_enum(scale_num)
            /\ UNCHANGED <<position_function_x, position_function_y>>
            /\ Returns("set_position_fn_y")

SetPositionFnZ(scale_num) ==
    /\ Called
    /\ UNCHANGED <<anchor_points, num_points, points, anchor_pairs,
                   connect_last_and_first_anchor, inverted_lightness>>
    /\ IF number_as_enum_panics(scale_num)
       THEN /\ Panics("set_position_fn_z")
            /\ UNCHANGED <<position_function_x, position_function_y, position_function_z>>
       ELSE /\ position_function_z' = number_as_enum(scale_num)
            /\ UNCHANGED <<position_function_x, position_function_y>>
            /\ Returns("set_position_fn_z")

SetPositionFn(scale_num) ==
    /\ Called
    /\ UNCHANGED <<anchor_points, num_points, points, anchor_pairs,
                   connect_last_and_first_anchor, inverted_lightness>>
    /\ IF number_as_enum_panics(scale_num)
       THEN /\ Panics("set_position_fn")
            /\ UNCHANGED <<position_function_x, position_function_y, position_function_z>>
       ELSE /\ position_function_x' = number_as_enum(scale_num)
            /\ position_function_y' = number_as_enum(scale_num)
            /\ position_function_z' = number_as_enum(scale_num)
            /\ Returns("set_position_fn")

\* get_closest_anchor_point(xyz, max_distance), a query: the palette is not
\* changed.
GetClosestAnchorPoint(xyz, max_distance) ==
    /\ Called
    /\ UNCHANGED palette
    /\ IF get_closest_anchor_point_panics
       THEN Panics("get_closest_anchor_point")
       ELSE Answers("get_closest_anchor_point", <<xyz, max_distance>>,
                    get_closest_anchor_point(xyz, max_distance))

\* colors(), a query.
Colors ==
    /\ Called
    /\ UNCHANGED palette
    /\ IF colors_panics
       THEN Panics("colors")
       ELSE Answers("colors", <<>>, colors)

\* colors_css(), a query.
ColorsCss ==
    /\ Called
    /\ UNCHANGED palette
    /\ IF colors_css_panics
       THEN Panics("colors_css")
       ELSE Answers("colors_css", <<>>, colors_css)

Next ==
    \/ \E options \in OptionsSet, random \in RandomPairs : From(options, random)
    \/ UpdateAnchorPairs
    \/ \E initial \in Collections, at \in InsertIndexes : AddAnchorPoint(initial, at)
    \/ \E index \in 0..Len(anchor_points) : RemoveAnchorPointAtIndex(index)
    \/ \E point \in ProbePoints : RemoveAnchorPoint(point)
    \/ \E index \in 0..Len(anchor_points), initial \in Collections :
            UpdateAnchorPointAtIndex(index, initial)
    \/ \E point \in ProbePoints, initial \in Collections : UpdateAnchorPoint(point, initial)
    \/ \E shift \in ShiftAngles : ShiftHue(shift)
    \/ \E scale_num \in ScaleNumInputs : SetPositionFnX(scale_num)
    \/ \E scale_num \in ScaleNumInputs : SetPositionFnY(scale_num)
    \/ \E scale_num \in ScaleNumInputs : SetPositionFnZ(scale_num)
    \/ \E scale_num \in ScaleNumInputs : SetPositionFn(scale_num)
    \/ \E xyz \in Queries, max_distance \in MaxDistances :
            GetClosestAnchorPoint(xyz, max_distance)
    \/ Colors
    \/ ColorsCss

Spec == Init /\ [][Next]_vars

\* The nearest-anchor query reads self.anchor_points only: construction, the
\* operations that assign anchor_points, and the query.
NextQuery ==
    \/ \E options \in OptionsSet, random \in RandomPairs : From(options, random)
    \/ \E initial \in Collections, at \in InsertIndexes : AddAnchorPoint(initial, at)
    \/ \E index \in 0..Len(anchor_points) : RemoveAnchorPointAtIndex(index)
    \/ \E point \in ProbePoints : RemoveAnchorPoint(point)
    \/ \E shift \in ShiftAngles : ShiftHue(shift)
    \/ \E xyz \in Queries, max_distance \in MaxDistances :
            GetClosestAnchorPoint(xyz, max_distance)

SpecQuery == Init /\ [][NextQuery]_vars

----------------------------------------------------------------------------
(* color_point.rs: a ColorPoint on its own, outside a palette *)

\* The ColorPoint operation name, called with a, left the point as v.
Leaves(name, a, v) ==
    /\ pc' = "live"
    /\ op' = name
    /\ args' = Some(a)
    /\ out' = None
    /\ color_point' = Some(v)
    /\ UNCHANGED <<palette, density>>

\* ColorPoint::new(initial)
ColorPointNew(initial) ==
    /\ pc = "start"
    /\ UNCHANGED calls
    /\ IF ColorPoint_new_panics(initial)
       THEN /\ Panics("new")
            /\ UNCHANGED <<palette, density, color_point>>
       ELSE Leaves("new", initial, ColorPoint_new(initial))

\* A &mut self method of the ColorPoint is called.
CalledOnPoint ==
    /\ pc = "live"
    /\ color_point # None
    /\ calls < MaxCalls
    /\ calls' = calls + 1

ColorPointSetPosition(new_position) ==
    /\ CalledOnPoint
    /\ Leaves("set_position", new_position, set_position(color_point[1], new_position))

ColorPointSetHsl(new_color) ==
    /\ CalledOnPoint
    /\ Leaves("set_hsl", new_color, set_hsl(color_point[1], new_color))

ColorPointShiftHue(angle) ==
    /\ CalledOnPoint
    /\ Leaves("shift_hue", angle, ColorPoint_shift_hue(color_point[1], angle))

NextColorPoint ==
    \/ \E initial \in PointCollections : ColorPointNew(initial)
    \/ \E new_position \in NewPositions : ColorPointSetPosition(new_position)
    \/ \E new_color \in NewColors : ColorPointSetHsl(new_color)
    \/ \E angle \in ShiftAngles : ColorPointShiftHue(angle)

SpecColorPoint == Init /\ [][NextColorPoint]_vars

----------------------------------------------------------------------------
(* utils.rs: the functions on their own *)

\* The function name returned v for the arguments in args.
Gives(name, v) ==
    /\ pc' = "returned"
    /\ op' = name
    /\ out' = Some(v)
    /\ UNCHANGED <<palette, calls, density, args, color_point>>

\* The function name panicked on the arguments in args.
Aborts(name) ==
    /\ pc' = "panicked"
    /\ op' = name
    /\ UNCHANGED <<palette, calls, density, args, out, color_point>>

\* vectors_on_line(p1, p2, num_points, invert, fx, fy, fz)
VectorsOnLine ==
    /\ pc = "start"
    /\ IF vectors_on_line_panics(args[1][3])
       THEN Aborts("vectors_on_line")
       ELSE Gives("vectors_on_line",
                  vectors_on_line(args[1][1], args[1][2], args[1][3], args[1][4],
                                  args[1][5], args[1][6], args[1][7]))

InitSampler == Blank /\ args \in {Some(a) : a \in SamplerInputs}

SpecSampler == InitSampler /\ [][VectorsOnLine]_vars

\* hsl_to_point(hsl, inverted_lightness)
HslToPoint ==
    /\ pc = "start"
    /\ Gives("hsl_to_point", hsl_to_point(args[1][1], args[1][2]))

InitConversion == Blank /\ args \in {Some(a) : a \in ConversionInputs}

SpecConversion == InitConversion /\ [][HslToPoint]_vars

----------------------------------------------------------------------------
(* The properties *)

\* The adjacent pairs of a list of anchors: (a[i], a[i+1]) for every i, then
\* (a[N-1], a[0]) when the palette is a closed loop.
AdjacentPairs(anchors, closed) ==
    [k \in 1..(Len(anchors) - 1) |-> <<anchors[k], anchors[k + 1]>>]
        \o (IF closed THEN <<<<anchors[Len(anchors)], anchors[1]>>>> ELSE <<>>)

\* flat without the elements whose index (from 0) is a nonzero multiple of m,
\* from index idx on.
RECURSIVE DropBoundaries(_, _, _)
DropBoundaries(flat, idx, m) ==
    IF idx >= Len(flat) THEN <<>>
    ELSE (IF idx # 0 /\ idx % m = 0 THEN <<>> ELSE <<flat[idx + 1]>>)
         \o DropBoundaries(flat, idx + 1, m)

\* Every inner sequence of points has density + 2 elements.
FullGrid == \A k \in 1..Len(points) : Len(points[k]) = density + 2

\* C1: in every state of a live palette, points has as many inner sequences
\* as anchor_pairs has pairs, and every inner sequence has n + 2 elements,
\* n being the sample density given to the constructor.
C1_GridShape ==
    pc = "live" =>
        /\ Len(points) = Len(anchor_pairs)
        /\ \A k \in 1..Len(points) : Len(points[k]) = density + 2

\* C2: with N >= 2 anchors, anchor_pairs is the sequence of adjacent anchors:
\* (a[i], a[i+1]) for i = 0..N-2, followed by (a[N-1], a[0]) exactly when the
\* palette is a closed loop.
C2_AdjacentPairs ==
    (pc = "live" /\ Len(anchor_points) >= 2) =>
        anchor_pairs = AdjacentPairs(anchor_points, connect_last_and_first_anchor)

\* C3: flattened_points is the concatenation of the per-pair sequences without
\* the elements at the flat indices that are nonzero multiples of
\* numPoints + 2, so its length is pairCount * (numPoints + 2) - (pairCount - 1).
\* Stated for the palettes whose grid has the shape C1 describes and at least
\* one pair.
C3_Flattened ==
    (pc = "live" /\ FullGrid /\ Len(points) >= 1) =>
        /\ flattened_points = DropBoundaries(flatten(points), 0, density + 2)
        /\ Len(flattened_points)
              = Len(anchor_pairs) * (density + 2) - (Len(anchor_pairs) - 1)

\* C4: for a freshly constructed open palette with exactly 2 anchor colors
\* and sample density k, colors() returns k + 2 entries, the first with the
\* first anchor's hue and the last with the second anchor's hue.
C4_FreshColors ==
    (pc = "live" /\ op = "from" /\ ~connect_last_and_first_anchor
        /\ Len(anchor_points) = 2) =>
        /\ ~colors_panics
        /\ Len(colors) = density + 2
        /\ colors[1][1] = anchor_points[1].color[1]
        /\ colors[Len(colors)][1] = anchor_points[2].color[1]

\* C5: update_anchor_point_at_index(index, init) with a valid index leaves at
\* that index the anchor with the position/color init gives, which is the
\* ColorPoint it returns; the other anchors are unchanged, and anchor_pairs
\* and points are derived from the updated anchors.
C5_UpdateAtIndex ==
    [][\A index \in 0..(Len(anchor_points) - 1), initial \in Collections :
        (UpdateAnchorPointAtIndex(index, initial) /\ pc' = "live") =>
            /\ Len(anchor_points') = Len(anchor_points)
            /\ anchor_points'[index + 1]
                  = update_anchor_point_at_index_result(index, initial)
            /\ initial.color # None =>
                  anchor_points'[index + 1].color = initial.color[1]
            /\ (initial.xyz # None /\ initial.color = None) =>
                  position(anchor_points'[index + 1]) = initial.xyz[1]
            /\ \A k \in 1..Len(anchor_points) :
                  k # index + 1 => anchor_points'[k] = anchor_points[k]
            /\ <<anchor_pairs', points'>>
                  = _update_anchor_pairs(connect_last_and_first_anchor, anchor_points',
                                         inverted_lightness, num_points,
                                         position_function_x, position_function_y,
                                         position_function_z)]_vars

\* C6: remove_anchor_point(point) and update_anchor_point(point, init) with a
\* point that equals no anchor report PointNotFound without crashing, and
\* leave anchors, anchor_pairs and points unchanged.
C6_PointNotFound ==
    [][\A point \in ProbePoints :
        (/\ position_of(anchor_points, point) = None
         /\ \/ RemoveAnchorPoint(point)
            \/ \E initial \in Collections : UpdateAnchorPoint(point, initial)) =>
            /\ pc' = "live"
            /\ UNCHANGED <<anchor_points, anchor_pairs, points>>]_vars

\* C7: in every state of a live palette the stored anchor_pairs and points
\* are what pair and grid derivation produce from the current anchors, the
\* stored sample count, closed_loop, the per-axis easing and
\* inverted_lightness.
C7_NeverStale ==
    pc = "live" =>
        <<anchor_pairs, points>>
            = _update_anchor_pairs(connect_last_and_first_anchor, anchor_points,
                                   inverted_lightness, num_points, position_function_x,
                                   position_function_y, position_function_z)

\* C8: a live palette always has at least 2 anchors.
C8_TwoAnchors == pc = "live" => Len(anchor_points) >= 2

\* C9: set_position_fn_x / _y / _z each change the stored easing of their own
\* axis only, and set_position_fn sets all three.
C9_SettersIndependent ==
    [][\A scale_num \in ScaleNums :
        /\ SetPositionFnX(scale_num) =>
              /\ position_function_x' = number_as_enum(scale_num)
              /\ UNCHANGED <<position_function_y, position_function_z>>
        /\ SetPositionFnY(scale_num) =>
              /\ position_function_y' = number_as_enum(scale_num)
              /\ UNCHANGED <<position_function_x, position_function_z>>
        /\ SetPositionFnZ(scale_num) =>
              /\ position_function_z' = number_as_enum(scale_num)
              /\ UNCHANGED <<position_function_x, position_function_y>>
        /\ SetPositionFn(scale_num) =>
              /\ position_function_x' = number_as_enum(scale_num)
              /\ position_function_y' = number_as_enum(scale_num)
              /\ position_function_z' = number_as_enum(scale_num)]_vars

\* C10: for every angle, on a palette whose anchor hues are in [0, 360),
\* shift_hue(angle) leaves every anchor with the hue (old hue + angle) mod 360,
\* in [0, 360), and with its saturation and lightness; the number and order
\* of the anchors are unchanged.
C10_ShiftHue ==
    [][\A shift \in ShiftAngles :
        (/\ ShiftHue(shift)
         /\ pc' = "live"
         /\ \A k \in 1..Len(anchor_points) : anchor_points[k].color[1] \in 0..(TURN - 1)) =>
            /\ Len(anchor_points') = Len(anchor_points)
            /\ \A k \in 1..Len(anchor_points) :
                  /\ anchor_points'[k].color[1]
                        = (anchor_points[k].color[1] + shift) % TURN
                  /\ anchor_points'[k].color[1] \in 0..(TURN - 1)
                  /\ anchor_points'[k].color[2] = anchor_points[k].color[2]
                  /\ anchor_points'[k].color[3] = anchor_points[k].color[3]]_vars

\* C11: on a palette with at least one anchor, get_closest_anchor_point(xyz,
\* max_distance) returns none exactly when every anchor's partial distance to
\* xyz is greater than max_distance, and otherwise the first anchor, in list
\* order, whose distance no other anchor's is below; the palette is unchanged.
C11_ClosestAnchor ==
    [][\A xyz \in Queries, max_distance \in MaxDistances :
        (GetClosestAnchorPoint(xyz, max_distance) /\ Len(anchor_points) >= 1) =>
            /\ pc' = "live"
            /\ UNCHANGED palette
            /\ out' # None
            /\ (out'[1] = None) <=>
                  (\A k \in 1..Len(anchor_points) : distances(xyz)[k] > max_distance)
            /\ out'[1] # None =>
                  \E k \in 1..Len(anchor_points) :
                      /\ out'[1] = Some(anchor_points[k])
                      /\ distances(xyz)[k] <= max_distance
                      /\ \A j \in 1..Len(anchor_points) :
                            distances(xyz)[j] >= distances(xyz)[k]
                      /\ \A j \in 1..(k - 1) : distances(xyz)[j] > distances(xyz)[k]]_vars

\* Two different anchors are equally close (both at the limit max_distance)
\* and the query returned the first.
C11_Witness ==
    /\ pc = "live"
    /\ op = "get_closest_anchor_point"
    /\ Len(anchor_points) >= 2
    /\ anchor_points[1] # anchor_points[2]
    /\ distances(args[1][1])[1] = args[1][2]
    /\ distances(args[1][1])[2] = args[1][2]
    /\ out = Some(Some(anchor_points[1]))

\* C12: on every live palette colors() and colors_css() return without
\* failing; the result has one entry per flattened point, in flattened order
\* (the point's color, or its CSS string), without the final one when the
\* palette is a closed loop, so that its length is the flattened length, or
\* the flattened length - 1 when closed.
C12_Colors ==
    [][/\ Colors =>
            /\ pc' = "live"
            /\ Len(out'[1]) = Len(flattened_points)
                                - (IF connect_last_and_first_anchor THEN 1 ELSE 0)
            /\ \A k \in 1..Len(out'[1]) : out'[1][k] = flattened_points[k].color
       /\ ColorsCss =>
            /\ pc' = "live"
            /\ Len(out'[1]) = Len(flattened_points)
                                - (IF connect_last_and_first_anchor THEN 1 ELSE 0)
            /\ \A k \in 1..Len(out'[1]) : out'[1][k] = hsl_css(flattened_points[k])]_vars

PositionGiven ==
    \/ op = "set_position"
    \/ op = "new" /\ args[1].xyz # None

\* Its color was the representation given last: to new alone, to set_hsl, or
\* rotated by shift_hue.
ColorGiven ==
    \/ op \in {"set_hsl", "shift_hue"}
    \/ op = "new" /\ args[1].xyz = None

Hues(grid) ==
    [k \in 1..Len(grid) |-> [j \in 1..Len(grid[k]) |-> grid[k][j].color[1]]]

\* C14: shift_hue(360) on any live palette leaves every anchor's hue, and
\* every hue in the derived grid, equal to its value before the call.
C14_FullTurn ==
    [][(ShiftHue(TURN) /\ pc' = "live") =>
            /\ Len(anchor_points') = Len(anchor_points)
            /\ \A k \in 1..Len(anchor_points) :
                  anchor_points'[k].color[1] = anchor_points[k].color[1]
            /\ Hues(points') = Hues(points)]_vars

\* C15: vectors_on_line with count >= 2 (count being num_points, or 4 when it
\* is absent) returns exactly count points, sample i being vector_on_line at
\* t = 0 for every i < count - 1 and at t = 1 for i = count - 1; with
\* count = 1 the call is a fatal error.
C15_Samples ==
    LET count == unwrap_or(args[1][3], 4)
    IN  /\ (pc # "start" /\ count = 1) => pc = "panicked"
        /\ (pc # "start" /\ count >= 2) =>
              /\ pc = "returned"
              /\ Len(out[1]) = count
              /\ \A i \in 0..(count - 1) :
                    out[1][i + 1]
                       = vector_on_line(IF i < count - 1 THEN 0 ELSE ONE,
                                        args[1][1], args[1][2], args[1][4],
                                        args[1][5], args[1][6], args[1][7])

\* Three samples between two different points: the middle one is not between
\* them, it is the first one again, and the last one differs.
C15_Witness ==
    /\ pc = "returned"
    /\ op = "vectors_on_line"
    /\ args[1][3] = Some(3)
    /\ args[1][1] # args[1][2]
    /\ Len(out[1]) = 3
    /\ out[1][2] = out[1][1]
    /\ out[1][3] # out[1][1]

============================================================================
